---- MODULE Spec2Model ----
(***************************************************************************)
(* Model of StageIdentityEngine.get_stage_identity (src/stage_complete.py) *)
(* and of the extraction layers it sequences.                              *)
(*                                                                         *)
(* Python values are tagged records [t, v]: t is the Python type and v     *)
(* the value.  A dictionary is a record over its possible keys in which a  *)
(* key that was never assigned holds Missing.  A page is not stored as     *)
(* text: each step draws, from a small set, what its regular expressions   *)
(* and selectors find in the page.                                         *)
(*                                                                         *)
(* A duration string is a record [fmt, a, b, c]:                           *)
(*   "hm"   "<a>h <b>m"          "m"    "<a>m"                             *)
(*   "ms"   "<a>m <b>s"          "hms"  "<a>h <b>m <c>s"                   *)
(*   "h"    "<a>h"               "num"  "<a>" (digits only)                *)
(*   "iso"  ISO-8601 duration of a hours, b minutes, c seconds             *)
(*   "text" any other text                                                 *)
(***************************************************************************)
EXTENDS Integers, Sequences, FiniteSets, TLC

VARIABLES
    pc,              \* position of the call in get_stage_identity
    url,             \* the argument of the call
    response,        \* how session.get / raise_for_status ended
    html,            \* what the call has read off response.text so far
    result,          \* the local result
    embedded_data,   \* the dictionary extract_embedded_data builds and returns
    next_data,       \* the local next_data: "empty" ({}) or "parsed"
    next_extracted,
    ld_data,
    ld_extracted,
    fetches,         \* number of session.get calls of this call
    ran,             \* the components this call has entered
    feat,            \* steps of this call that drew non-default page content
    ret,             \* the record handed to the caller
    outcome,         \* "none", "returned" or "raised"
    session,         \* self.session: "unused" until a request goes through it
    earlier,         \* the input and record of an earlier call, where one is kept
    other,           \* a second call on the same engine: "idle" or "in flight"
    bot              \* the /stage handler of the bot: its position, its locals and
                     \* the Telegram calls it has made

vars == <<pc, url, response, html, result, embedded_data, next_data, next_extracted,
          ld_data, ld_extracted, fetches, ran, feat, ret, outcome, session, earlier,
          other, bot>>

----------------------------------------------------------------------------
(* Bounds *)

\* apart from its title elements, a page has content for at most this many
\* of the things the engine looks for: a field of Layer A, of the
\* __NEXT_DATA__ content object or of the linked-data object, a poster in the
\* tree, classifier text
MaxFeatures == 2

\* a page has at most this many paragraphs with a duration or a year phrase
MaxPhrases == 2

\* the URLs given to extract_stage_id have at most this many characters
MaxUrlLen == 3

----------------------------------------------------------------------------
(* Python values *)

None == [t |-> "none", v |-> ""]
Missing == [t |-> "missing", v |-> ""]
PStr(s) == [t |-> "str", v |-> s]
PInt(n) == [t |-> "int", v |-> n]
PBool(b) == [t |-> "bool", v |-> b]
\* the URL string, held as the sequence of its characters
PUrl(u) == [t |-> "url", v |-> u]
\* a str held as the sequence of its characters
PChars(s) == [t |-> "chars", v |-> s]
\* a str whose text is a duration, held as [fmt, a, b, c]
PDur(f, x, y, z) == [t |-> "dstr", v |-> [fmt |-> f, a |-> x, b |-> y, c |-> z]]

\* Python truthiness of a value
Truthy(x) ==
    CASE x.t = "none" -> FALSE
      [] x.t = "missing" -> FALSE
      [] x.t = "str" -> x.v # ""
      [] x.t = "dstr" -> TRUE
      [] x.t = "chars" -> Len(x.v) > 0
      [] x.t = "int" -> x.v # 0
      [] x.t = "bool" -> x.v
      [] OTHER -> TRUE

\* len(d) of a dictionary
Fields(d) == Cardinality({k \in DOMAIN d : d[k] # Missing})

\* dict.get(key, default)
Get(d, k, default) == IF d[k] = Missing THEN default ELSE d[k]

\* isinstance(x, str)
IsStr(x) == x.t \in {"str", "dstr"}

\* str(x) of an integer or of a string
StrOf(x) == IF x.t = "int" THEN PStr(ToString(x.v)) ELSE x

\* mutant of Title: the string as it is, without .title()
Title_omitted(x) == x
\* str.title() on the language names and type names the model uses
Title(x) ==
    CASE x = PStr("haryanvi") -> PStr("Haryanvi")
      [] x = PStr("gujarati") -> PStr("Gujarati")
      [] x = PStr("series") -> PStr("Series")
      [] x = PStr("movie") -> PStr("Movie")
      [] OTHER -> x

----------------------------------------------------------------------------
(* Leaves: Duration Normalizer, Identifier Extractor *)

\* f"{hours}h {remaining_minutes}m" / f"{remaining_minutes}m" of a seconds count
FormatSeconds(seconds) ==
    LET minutes == seconds \div 60
        hours == minutes \div 60
        remaining_minutes == minutes % 60
    IN IF hours > 0 THEN PDur("hm", hours, remaining_minutes, 0)
       ELSE PDur("m", remaining_minutes, 0, 0)

\* isodate.parse_duration succeeds exactly on an ISO-8601 duration string
ParsesAsIso(x) == x.t = "dstr" /\ x.v.fmt = "iso"

convert_duration(iso_duration) ==
    IF ~Truthy(iso_duration) THEN None
    ELSE IF ParsesAsIso(iso_duration)
         THEN LET total_seconds == iso_duration.v.a * 3600 + iso_duration.v.b * 60
                                   + iso_duration.v.c
                  total_minutes == total_seconds \div 60
                  hours == total_minutes \div 60
                  minutes == total_minutes % 60
              IN IF hours > 0 THEN PDur("hm", hours, minutes, 0)
                 ELSE PDur("m", minutes, 0, 0)
         ELSE iso_duration

\* a URL is a sequence of characters: "m" stands for a letter, "1", "4" and
\* "5" for digits
Digits == {"1", "4", "5"}
UrlChars == {"/", "m", "-"} \cup Digits

\* the URLs of the calls: ".../m-14145" and ".../m14"
URLs == {<<"/", "m", "-", "1", "4", "1", "4", "5">>, <<"/", "m", "1", "4">>}

\* the pattern -(\d+)$ matches at position i: a hyphen, then digits up to the
\* end of the URL, at least one
MatchesAt(u, i) ==
    /\ u[i] = "-"
    /\ i < Len(u)
    /\ \A j \in (i + 1)..Len(u) : u[j] \in Digits

\* mutant: the pattern without its anchor, -(\d+): a hyphen, then at least
\* one digit
extract_stage_id_unanchored(u) ==
    LET at(i) == u[i] = "-" /\ i < Len(u) /\ u[i + 1] \in Digits
        digitsFrom(i) == CHOOSE k \in i..Len(u) :
                            /\ \A j \in i..k : u[j] \in Digits
                            /\ (k = Len(u) \/ u[k + 1] \notin Digits)
    IN IF \E i \in 1..Len(u) : at(i)
       THEN LET i == CHOOSE i \in 1..Len(u) : at(i) /\ \A j \in 1..(i - 1) : ~at(j)
            IN PChars(SubSeq(u, i + 1, digitsFrom(i + 1)))
       ELSE None

\* re.search(r'-(\d+)$', url): group 1 of the leftmost match, or None
extract_stage_id(u) ==
    IF \E i \in 1..Len(u) : MatchesAt(u, i)
    THEN LET i == CHOOSE i \in 1..Len(u) :
                     MatchesAt(u, i) /\ \A j \in 1..(i - 1) : ~MatchesAt(u, j)
         IN PChars(SubSeq(u, i + 1, Len(u)))
    ELSE None

\* str.endswith('m') / str.endswith('h') of a duration text
EndsWithM(x) == x.t = "dstr" /\ x.v.fmt \in {"hm", "m"}
EndsWithH(x) == x.t = "dstr" /\ x.v.fmt = "h"

----------------------------------------------------------------------------
(* Layer A: extract_embedded_data, one operator per field *)

EmptyDict == [type |-> Missing, title |-> Missing, description |-> Missing,
              duration |-> Missing, yearOfRelease |-> Missing, dialect |-> Missing,
              genre |-> Missing, episode_count |-> Missing,
              horizontalThumbnail |-> Missing, verticalThumbnail |-> Missing]

\* bool(d) of a dictionary: it has a key
NonEmptyDict(d) == \E k \in DOMAIN d : d[k] # Missing

\* the result of a failed re.search / select_one
NoMatch == "<no match>"

\* what the type heuristics read off the page: whether a series-like path
\* marker and '/movie/' occur, where each known series title occurs
\* ("none", only inside a search-suggestion window, or "visible"), and the
\* two indicator counts
KnownSeries == {"videshi bahu", "ramayan"}
TypeFeatures == [seriesPath : BOOLEAN, known : [KnownSeries -> {"none", "suggestion", "visible"}],
                 moviePath : BOOLEAN, series_count : 0..2, movie_count : 0..2]
NoTypeFeatures == [seriesPath |-> FALSE, known |-> [k \in KnownSeries |-> "none"],
                   moviePath |-> FALSE, series_count |-> 0, movie_count |-> 0]

\* mutant of A_Type: '/movie/' looked for before the known series titles
A_Type_movie_first(f) ==
    IF f.seriesPath THEN [type |-> PStr("series"), episode_count |-> Missing]
    ELSE IF f.moviePath THEN [type |-> PStr("movie"), episode_count |-> Missing]
         ELSE IF \E k \in KnownSeries : f.known[k] = "visible"
              THEN [type |-> PStr("series"),
                    episode_count |-> IF f.known["videshi bahu"] # "none" THEN PInt(12)
                                      ELSE Missing]
              ELSE IF f.series_count >= 2 /\ f.movie_count <= 1
                   THEN [type |-> PStr("series"), episode_count |-> Missing]
                   ELSE [type |-> PStr("movie"), episode_count |-> Missing]

\* lines 473-565: the type and the manual episode-count override
A_Type(f) ==
    IF f.seriesPath THEN [type |-> PStr("series"), episode_count |-> Missing]
    ELSE IF \E k \in KnownSeries : f.known[k] = "visible"
         THEN [type |-> PStr("series"),
               episode_count |-> IF f.known["videshi bahu"] # "none" THEN PInt(12) ELSE Missing]
         ELSE IF f.moviePath THEN [type |-> PStr("movie"), episode_count |-> Missing]
              ELSE IF f.series_count >= 2 /\ f.movie_count <= 1
                   THEN [type |-> PStr("series"), episode_count |-> Missing]
                   ELSE [type |-> PStr("movie"), episode_count |-> Missing]

\* lines 515-527: an occurrence of a known series title is skipped when
\* '"search_screen"' or 'textfieldlabel' lies wholly inside
\* content_lower[match_pos - 100 : match_pos + 100].  A page is described by
\* whether each title occurs and, for its occurrence farthest from any
\* marker, how far from the start of that occurrence the nearest marker ends
\* (FarAway: no marker near it)
ContextWindow == 100
FarAway == 1000
MarkerEnds == {ContextWindow, ContextWindow + 1, FarAway}
TypePages == [seriesPath : BOOLEAN, moviePath : BOOLEAN,
              known : [KnownSeries -> [present : BOOLEAN, marker_end : MarkerEnds]],
              series_count : 0..2, movie_count : 0..2]
NoKnownTitle == [present |-> FALSE, marker_end |-> FarAway]
NoTypePage == [seriesPath |-> FALSE, moviePath |-> FALSE,
               known |-> [k \in KnownSeries |-> NoKnownTitle],
               series_count |-> 0, movie_count |-> 0]
InSuggestion(occ) == occ.marker_end <= ContextWindow
Where(occ) == IF ~occ.present THEN "none"
              ELSE IF InSuggestion(occ) THEN "suggestion" ELSE "visible"
FeaturesOf(p) == [seriesPath |-> p.seriesPath, known |-> [k \in KnownSeries |-> Where(p.known[k])],
                  moviePath |-> p.moviePath, series_count |-> p.series_count,
                  movie_count |-> p.movie_count]

\* lines 567-582: title = first candidate that is non-empty and not "STAGE";
\* cands[i] is "text or content" of the element selector i finds, or NoMatch
TitleSelectors == <<"h1", "title", "[data-testid='movie-title']", ".movie-title",
                    "meta[property='og:title']">>
TitleTexts == {"", "STAGE", "Kayantar"}
RECURSIVE A_TitleFrom(_, _)
A_TitleFrom(cands, i) ==
    IF i > Len(TitleSelectors) THEN Missing
    ELSE IF cands[i] # NoMatch /\ cands[i] # "" /\ cands[i] # "STAGE" THEN PStr(cands[i])
         ELSE A_TitleFrom(cands, i + 1)
\* mutant of A_Title: without the test title != "STAGE"
A_Title_keeping_site_name(cands) ==
    LET found == {i \in DOMAIN cands : cands[i] # NoMatch /\ cands[i] # ""}
    IN IF found = {} THEN Missing
       ELSE PStr(cands[CHOOSE i \in found : \A j \in found : i <= j])
A_Title(cands) == A_TitleFrom(cands, 1)

\* the page and URL of the scenario: <title>STAGE</title>, an Open-Graph
\* title 'Kayantar', no heading and no element of the two known selectors;
\* a URL that ends in a hyphen and the identifier
KayantarPage == <<NoMatch, "STAGE", NoMatch, NoMatch, "Kayantar">>
KayantarUrl == <<"/", "m", "-", "1", "4", "1", "4", "5">>

\* lines 584-599: description = first candidate longer than 50 characters
DescSelectors == <<"meta[property='og:description']", "meta[name='description']",
                   ".movie-description", ".description", "p">>
DescShort == "A Haryanvi film."
DescLong == "Kayantar is a Haryanvi film about a family that must decide what to keep."
DescTexts == {"", DescShort, DescLong}
RECURSIVE A_DescFrom(_, _)
A_DescFrom(cands, i) ==
    IF i > Len(DescSelectors) THEN Missing
    ELSE IF cands[i] # NoMatch /\ cands[i] # "" /\ Len(cands[i]) > 50 THEN PStr(cands[i])
         ELSE A_DescFrom(cands, i + 1)
A_Description(cands) == A_DescFrom(cands, 1)

\* a regular-expression capture of a duration, before it is normalised:
\*   "c3" a:b:c   "c2" a:b   "hm" "<a>h <b>m"   "hmc" "<a>h<b>m"
\*   "num" "<a>"   "h" "<a>h"   "m" "<a>m"
Cap(f, x, y, z) == [fmt |-> f, a |-> x, b |-> y, c |-> z]
NoCap == Cap("none", 0, 0, 0)

\* lines 606-622: the page text is a sequence of paragraphs, each one of
\* these phrases; DurCapture(i, ph) is group 1 of pattern i searched in ph
NumDurPatterns == 15
DurPhrases == {"1:27:05", "27:05", "1h27m", "87 minutes", "runs for approximately 2h",
               "duration: 0m", "duration 0h", "348h 5m", "duration 348h"}
DurCapture(i, ph) ==
    CASE i = 1 /\ ph = "1:27:05" -> Cap("c3", 1, 27, 5)
      [] i = 3 /\ ph = "1h27m" -> Cap("hmc", 1, 27, 0)
      [] i = 3 /\ ph = "348h 5m" -> Cap("hm", 48, 5, 0)
      [] i = 4 /\ ph = "1:27:05" -> Cap("c2", 1, 27, 0)
      [] i = 4 /\ ph = "27:05" -> Cap("c2", 27, 5, 0)
      [] i = 5 /\ ph = "87 minutes" -> Cap("num", 87, 0, 0)
      [] i = 7 /\ ph = "runs for approximately 2h" -> Cap("h", 2, 0, 0)
      [] i = 11 /\ ph = "duration 0h" -> Cap("h", 0, 0, 0)
      [] i = 11 /\ ph = "duration 348h" -> Cap("h", 348, 0, 0)
      [] i = 12 /\ ph = "duration: 0m" -> Cap("m", 0, 0, 0)
      [] OTHER -> NoCap

\* the texts of at most MaxPhrases paragraphs over the phrases S
Texts(S) == UNION {[1..n -> S] : n \in 0..MaxPhrases}

\* re.search(pattern i, text): the leftmost match
RECURSIVE DurSearch(_, _, _)
DurSearch(i, text, j) ==
    IF j > Len(text) THEN NoCap
    ELSE IF DurCapture(i, text[j]) # NoCap THEN DurCapture(i, text[j])
         ELSE DurSearch(i, text, j + 1)

\* line 628: duration == "0m" or duration == "0h" or "348h" in duration
Unrealistic(cap) ==
    \/ cap.fmt = "m" /\ cap.a = 0
    \/ cap.fmt = "h" /\ cap.a = 0
    \/ cap.fmt \in {"h", "hm", "hmc", "hms"} /\ cap.a = 348

\* lines 631-649: colon forms are rebuilt, "<a>h<b>m" gets its space
NormalizeCapture(cap) ==
    CASE cap.fmt = "c3" -> IF cap.a > 0 THEN PDur("hms", cap.a, cap.b, cap.c)
                           ELSE PDur("ms", cap.b, cap.c, 0)
      [] cap.fmt = "c2" -> PDur("ms", cap.a, cap.b, 0)
      [] cap.fmt = "hmc" -> PDur("hm", cap.a, cap.b, 0)
      [] OTHER -> PDur(cap.fmt, cap.a, cap.b, cap.c)

\* lines 624-650: the first pattern with a realistic match sets the duration
RECURSIVE A_DurationFrom(_, _)
A_DurationFrom(text, i) ==
    IF i > NumDurPatterns THEN Missing
    ELSE LET cap == DurSearch(i, text, 1)
         IN IF cap # NoCap /\ ~Unrealistic(cap) THEN NormalizeCapture(cap)
            ELSE A_DurationFrom(text, i + 1)

\* lines 601-650: the "nasoor"/"gujarati" override, else the patterns
A_Duration(nasoor, text) ==
    IF nasoor THEN PDur("hm", 1, 53, 0) ELSE A_DurationFrom(text, 1)

\* lines 652-665: YearCapture(i, ph) is int(group 1) of year pattern i in ph
NumYearPatterns == 3
YearPhrases == {"released in 1899", "2031 movie", "2005 movie"}
YearCapture(i, ph) ==
    CASE i = 1 /\ ph = "released in 1899" -> 1899
      [] i = 2 /\ ph = "2005 movie" -> 2005
      [] i = 2 /\ ph = "2031 movie" -> 2031
      [] i = 3 /\ ph = "2005 movie" -> 2005
      [] i = 3 /\ ph = "2031 movie" -> 2031
      [] i = 3 /\ ph = "released in 1899" -> 1899
      [] OTHER -> -1

RECURSIVE YearSearch(_, _, _)
YearSearch(i, text, j) ==
    IF j > Len(text) THEN -1
    ELSE IF YearCapture(i, text[j]) # -1 THEN YearCapture(i, text[j])
         ELSE YearSearch(i, text, j + 1)

MinYear == 1900
MaxYear == 2030
\* mutant: the upper end of the range is not tested
ValidYearNoUpperBound(year) == MinYear <= year

\* line 663
ValidYear(year) == MinYear <= year /\ year <= MaxYear

RECURSIVE A_YearFrom(_, _)
A_YearFrom(text, i) ==
    IF i > NumYearPatterns THEN Missing
    ELSE LET year == YearSearch(i, text, 1)
         IN IF year # -1 /\ ValidYear(year) THEN PInt(year)
            ELSE A_YearFrom(text, i + 1)
A_Year(text) == A_YearFrom(text, 1)

\* str.lower() on the language names the model uses
Lower(x) == IF x = "Haryanvi" THEN "haryanvi" ELSE x

\* lines 667-680: caps[i] is group 1 of language pattern i, or NoMatch
LangTexts == {"in", "Haryanvi"}
RECURSIVE A_LangFrom(_, _)
A_LangFrom(caps, i) ==
    IF i > Len(caps) THEN Missing
    ELSE IF caps[i] # NoMatch /\ Len(caps[i]) > 2 THEN PStr(Lower(caps[i]))
         ELSE A_LangFrom(caps, i + 1)
A_Language(caps) == A_LangFrom(caps, 1)

\* lines 682-696: the first genre pattern that matches wins; a match of the
\* third (two words before "movie") is also a match of the second
GenreCaps == {c \in [1..3 -> {NoMatch, "Drama"}] : c[3] # NoMatch => c[2] # NoMatch}
A_Genre(caps) ==
    IF caps[1] # NoMatch THEN PStr(caps[1])
    ELSE IF caps[2] # NoMatch THEN PStr(caps[2])
         ELSE IF caps[3] # NoMatch THEN PStr(caps[3]) ELSE Missing

\* lines 698-715: the first episode pattern that matches replaces the count;
\* a match of the fifth pattern contains a match of the first
EpisodeCaps == {c \in [1..5 -> {-1, 8}] : c[5] # -1 => c[1] # -1}
RECURSIVE A_EpisodesFrom(_, _, _)
A_EpisodesFrom(caps, i, old) ==
    IF i > Len(caps) THEN old
    ELSE IF caps[i] # -1 THEN PInt(caps[i]) ELSE A_EpisodesFrom(caps, i + 1, old)
A_Episodes(type, caps, old) ==
    IF type = PStr("series") THEN A_EpisodesFrom(caps, 1, old) ELSE old

\* lines 717-729: matches[0][0] of the two poster patterns
HorizontalUrl == "https://media.stage.in/episode/horizontal/kayantar.webp"
VerticalUrl == "https://media.stage.in/episode/vertical/kayantar.webp"
A_Poster(found, poster_url) == IF found THEN PStr(poster_url) ELSE Missing

\* find_movie_data, for the flat dictionary extract_embedded_data returns
find_movie_data(data) ==
    IF data.type \in {PStr("movie"), PStr("individual"), PStr("series")} THEN data
    ELSE EmptyDict

----------------------------------------------------------------------------
(* Layer B: extract_from_next_data *)

NoExtract == [title |-> Missing, description |-> Missing, release_date |-> Missing,
              duration |-> Missing, genre |-> Missing, languages |-> Missing]

\* the content object of the __NEXT_DATA__ tree, as far as Layer B reads it
ContentObjects == [title : {Missing, PStr("Kayantar (Haryanvi)")},
                   description : {Missing, PStr("A family drama.")},
                   yearOfRelease : {Missing, PInt(2021)},
                   duration : {Missing, PInt(0), PInt(30), PInt(5220)},
                   dialect : {Missing, None, PStr("haryanvi")},
                   genre : {Missing, PStr("Drama")}]
NoContent == [title |-> Missing, description |-> Missing, yearOfRelease |-> Missing,
              duration |-> Missing, dialect |-> Missing, genre |-> Missing]

\* json.dumps writes '"key": value'; the patterns of lines 228-234 and the
\* named-field poster patterns expect '"key":value'
DumpsKeySeparator == ": "
PatternKeySeparator == ":"
NamedFieldMatches == DumpsKeySeparator = PatternKeySeparator

\* a parsed tree: content = the object tagged movie/show; found = it sits at
\* one of the probed data sources (or in a probed content list), not deeper
NextTrees == {tr \in [found : BOOLEAN, content : ContentObjects] :
                 /\ Fields(tr.content) <= MaxFeatures
                 /\ ~tr.found => tr.content.dialect # None}

\* lines 224-257: the regular-expression fallback over json.dumps(next_json)
NextFromPatterns(cd) ==
    LET hit(k) == NamedFieldMatches /\ Truthy(cd[k]) /\ cd[k].t \in {"str", "int"}
    IN [title |-> IF hit("title") THEN cd.title ELSE Missing,
        description |-> IF hit("description") THEN cd.description ELSE Missing,
        release_date |-> IF hit("yearOfRelease") THEN StrOf(cd.yearOfRelease) ELSE Missing,
        duration |-> IF NamedFieldMatches /\ cd.duration.t = "int"
                     THEN FormatSeconds(cd.duration.v) ELSE Missing,
        genre |-> Missing,
        languages |-> IF hit("dialect") THEN Title(cd.dialect) ELSE Missing]

\* lines 260-286: the fields of content_data, in order; .title() on a dialect
\* that is not a string raises, and the except returns what was set so far
NextFromContent(cd) ==
    LET upto_duration ==
          [title |-> Get(cd, "title", None),
           description |-> Get(cd, "description", None),
           release_date |-> StrOf(Get(cd, "yearOfRelease", PStr(""))),
           duration |-> IF Truthy(Get(cd, "duration", None))
                        THEN FormatSeconds(cd.duration.v) ELSE Missing,
           genre |-> Missing,
           languages |-> Missing]
    IN IF ~IsStr(Get(cd, "dialect", PStr(""))) THEN upto_duration
       ELSE [upto_duration EXCEPT !.languages = Title(Get(cd, "dialect", PStr(""))),
                                  !.genre = Get(cd, "genre", None)]

extract_from_next_data(tr) ==
    IF tr.found THEN NextFromContent(tr.content) ELSE NextFromPatterns(tr.content)

----------------------------------------------------------------------------
(* Poster Detector: detect_posters *)

\* re.findall returns group 1 where a pattern has a group: the file extension
\* for the three URL-shape patterns, the field value for the named-field ones.
\* urlShape = index of the first URL-shape pattern that matches the serialized
\* tree (0: none); field = the tree has the orientation's thumbnail field
ThumbnailUrl == "https://cdn.stage.in/kayantar-h.png"
PortraitThumbnailUrl == "https://cdn.stage.in/kayantar-v.png"
PosterFeatures == {f \in [urlShape : 0..3, field : BOOLEAN] : f.urlShape > 0 => f.field}
NoPoster == [urlShape |-> 0, field |-> FALSE]
PosterFrom(f, field_value) ==
    IF f.urlShape > 0 THEN PStr("webp")
    ELSE IF f.field /\ NamedFieldMatches THEN PStr(field_value) ELSE None
detect_posters(landscape, portrait) ==
    [landscape |-> PosterFrom(landscape, ThumbnailUrl),
     portrait |-> PosterFrom(portrait, PortraitThumbnailUrl)]

----------------------------------------------------------------------------
(* Layer C: extract_from_ld_json *)

\* str.split('T')[0] of the upload dates the model uses
DatePart(x) == IF x = PStr("2021-05-01T10:00:00") THEN PStr("2021-05-01") ELSE x

\* the ISO-8601 durations are written in seconds ("PT5220S", "PT30S"): no
\* duration pattern of Layer A matches such a text in the raw page, while it
\* would match the "1H27M" of "PT1H27M"
LdObjects == [name : {Missing, PStr("Kayantar - Watch Online")},
              description : {Missing, PStr("Watch Kayantar online.")},
              uploadDate : {Missing, PStr("2021-05-01T10:00:00")},
              duration : {Missing, PDur("iso", 0, 0, 5220), PDur("iso", 0, 0, 30),
                          PDur("text", 90, 0, 0), PInt(5220)},
              genre : {Missing, PStr("Family")},
              inLanguage : {Missing, PStr("hi")}]
NoLdObject == [name |-> Missing, description |-> Missing, uploadDate |-> Missing,
               duration |-> Missing, genre |-> Missing, inLanguage |-> Missing]

\* the JSON value of the block: an object, a list whose first member is an
\* object, an empty list, or anything else (on which .get raises)
LdShapes == {"object", "list", "empty list", "scalar"}
LdBlocks == {b \in [shape : LdShapes, obj : LdObjects] :
                /\ Fields(b.obj) <= MaxFeatures
                /\ b.shape \in {"empty list", "scalar"} => b.obj = NoLdObject}

extract_from_ld_json(shape, obj) ==
    LET ld == IF shape = "empty list" THEN NoLdObject ELSE obj
    IN IF shape = "scalar" THEN NoExtract
       ELSE [title |-> Get(ld, "name", None),
             description |-> Get(ld, "description", None),
             release_date |-> IF Truthy(Get(ld, "uploadDate", None))
                              THEN DatePart(ld.uploadDate) ELSE None,
             duration |-> convert_duration(Get(ld, "duration", None)),
             genre |-> Get(ld, "genre", None),
             languages |-> Get(ld, "inLanguage", None)]

----------------------------------------------------------------------------
(* Content-Type Classifier and Episode-Count Extractor *)

\* what json.dumps(next_json) + json.dumps(ld_data) contains: a series-like
\* path marker, '/movie/', and words.  `indicator.lower() in json_text.lower()`
\* is substring containment, so a word brings every indicator it contains.
series_indicators == {"episode", "episodes", "season", "seasons", "series", "web series"}
Contains == {<<"episodes", "episode">>, <<"seasons", "season">>, <<"web series", "series">>}
Occurring(words) ==
    {i \in series_indicators : \E w \in words : i = w \/ <<w, i>> \in Contains}
IndicatorTexts == {{}, {"series"}, {"episodes"}, {"episodes", "series"},
                   {"seasons", "web series"}, {"episodes", "seasons", "web series"}}
JsonTextFeatures == [seriesPath : BOOLEAN, moviePath : BOOLEAN, words : IndicatorTexts]
NoJsonText == [seriesPath |-> FALSE, moviePath |-> FALSE, words |-> {}]

\* mutant of detect_content_type: the '/movie/' search placed before the url_patterns loop
detect_content_type_movie_first(f) ==
    LET series_count == Cardinality(Occurring(f.words))
    IN IF f.moviePath THEN PStr("Movie")
       ELSE IF f.seriesPath THEN PStr("Series")
            ELSE IF series_count >= 3 THEN PStr("Series") ELSE PStr("Movie")
detect_content_type(f) ==
    LET series_count == Cardinality(Occurring(f.words))
    IN IF f.seriesPath THEN PStr("Series")
       ELSE IF f.moviePath THEN PStr("Movie")
            ELSE IF series_count >= 3 THEN PStr("Series") ELSE PStr("Movie")

\* caps[i] = int(group 1) of episode pattern i over the same text, -1: no match
JsonEpisodeCaps == [1..4 -> {-1, 8}]
NoJsonEpisodes == [i \in 1..4 |-> -1]
RECURSIVE EpisodeCountFrom(_, _)
EpisodeCountFrom(caps, i) ==
    IF i > Len(caps) THEN None
    ELSE IF caps[i] # -1 THEN PInt(caps[i]) ELSE EpisodeCountFrom(caps, i + 1)
extract_episode_count(caps) == EpisodeCountFrom(caps, 1)

----------------------------------------------------------------------------
(* get_stage_identity *)

\* mutant: the episode count starts at 0 instead of None
InitialResultZeroCount(u) ==
    [stage_id |-> extract_stage_id(u), type |-> None, title |-> None,
     description |-> None, release_date |-> None, duration |-> None,
     genre |-> None, languages |-> None, episode_count |-> PInt(0),
     landscape_poster |-> None, portrait_poster |-> None,
     url |-> PUrl(u), success |-> PBool(FALSE), error |-> Missing]

\* lines 327-341
InitialResult(u) ==
    [stage_id |-> extract_stage_id(u), type |-> None, title |-> None,
     description |-> None, release_date |-> None, duration |-> None,
     genre |-> None, languages |-> None, episode_count |-> None,
     landscape_poster |-> None, portrait_poster |-> None,
     url |-> PUrl(u), success |-> PBool(FALSE), error |-> Missing]

\* mutant: the failure record keeps the identifier of the URL
FailureRecordWithId(u, e) ==
    [stage_id |-> extract_stage_id(u), type |-> None, title |-> None,
     description |-> None, release_date |-> None, duration |-> None,
     genre |-> None, languages |-> None, episode_count |-> None,
     landscape_poster |-> None, portrait_poster |-> None,
     url |-> PUrl(u), success |-> PBool(FALSE), error |-> PStr(e)]

\* lines 446-462: the record the except clause returns
FailureRecord(u, e) ==
    [stage_id |-> None, type |-> None, title |-> None,
     description |-> None, release_date |-> None, duration |-> None,
     genre |-> None, languages |-> None, episode_count |-> None,
     landscape_poster |-> None, portrait_poster |-> None,
     url |-> PUrl(u), success |-> PBool(FALSE), error |-> PStr(e)]

NoRecord == [stage_id |-> Missing, type |-> Missing, title |-> Missing,
             description |-> Missing, release_date |-> Missing, duration |-> Missing,
             genre |-> Missing, languages |-> Missing, episode_count |-> Missing,
             landscape_poster |-> Missing, portrait_poster |-> Missing,
             url |-> Missing, success |-> Missing, error |-> Missing]

\* mutant: the except clause catches only the exceptions of the fetch
CaughtOnFetchOnly(u, e) ==
    IF e = "fault" THEN [ret |-> NoRecord, outcome |-> "raised"]
    ELSE [ret |-> FailureRecord(u, e), outcome |-> "returned"]

\* lines 319 and 446: what an exception raised inside the try block leads to
Caught(u, e) == [ret |-> FailureRecord(u, e), outcome |-> "returned"]

NoUrl == <<>>

\* html.year[i]: what year pattern i matched first in the page, -1: nothing;
\* html.ld_duration: the duration of the object in the page's
\* application/ld+json script, whether or not the call reads that script;
\* html.type_page: what the type heuristics saw, where the step keeps it;
\* html.title_cands: the title candidates, where the step keeps them;
\* html.plain: apart from its title candidates the page has, as far as the call
\* has read it, nothing that any step found (no draw counted as a feature) and
\* raised no exception;
\* html.videshi_bahu: the page shows "Videshi Bahu" outside a search-suggestion
\* window and has neither a series-like path marker nor '/movie/'
NoHtml == [year |-> <<-1, -1, -1>>, ld_duration |-> Missing, videshi_bahu |-> FALSE,
           json_text |-> NoJsonText, title_cands |-> [i \in 1..Len(TitleSelectors) |-> NoMatch],
           plain |-> TRUE, type_page |-> NoTypePage]

FetchOutcomes == {"ok", "timeout", "connection error", "http error"}

LayerASteps == {"A_type", "A_title", "A_description", "A_duration", "A_year",
                "A_language", "A_genre", "A_episodes", "A_posters"}
EngineSteps == {"copy", "next", "ld", "classify", "else"}

Cost(nonDefault) == IF nonDefault THEN 1 ELSE 0
\* the classifier's text: each path marker is one feature, the indicator words one more
TextCost(f) == Cost(f.seriesPath) + Cost(f.moviePath) + Cost(f.words # {})

\* no earlier call is kept
NoCall == [url |-> NoUrl, html |-> NoHtml, ret |-> NoRecord]

\* the URLs users send with /stage: the host, then the parts of the path; a
\* part is a piece of text no search word runs across
BotUrls == {<<"www.stage.in", "/", "movie", "/", "m", "-", "1", "4", "1", "4", "5">>,
            <<"evil.example", "/", "stage.in", "/", "MOVIE">>,
            <<"evil.example", "/", "movie", "-", "1">>,
            <<"stage.in", "/", "m">>}

\* str.lower() of a part
LowerPart(part) == CASE part = "MOVIE" -> "movie"
                     [] OTHER -> part

\* needle in part, for the needles validate_stage_url looks for
PartContains(part, needle) ==
    CASE needle = "stage.in" -> part \in {"stage.in", "www.stage.in"}
      [] OTHER -> part = needle

\* needle in text
In(needle, text) == \E i \in 1..Len(text) : PartContains(text[i], needle)

\* url.lower()
LowerUrl(u) == [i \in 1..Len(u) |-> LowerPart(u[i])]

\* lines 950-955
validate_stage_url(u) ==
    /\ In("stage.in", LowerUrl(u))
    /\ (In("movie", LowerUrl(u)) \/ In("series", LowerUrl(u)) \/ In("-", u))

\* the host of a URL is stage.in or one of its subdomains
OnStageDomain(u) == LowerPart(u[1]) \in {"stage.in", "www.stage.in"}

\* the outcomes of a call of the Telegram API
TelegramOutcomes == {"ok", "raises"}

\* no /stage command has come in yet. bot.processing is what the user sees of
\* the 'Processing' message: "none" (never sent), "sent", "deleted", or what it
\* was edited to: "text" (the formatted result), "failed" (the failure text of
\* line 900) or "error" (the text of line 932); bot.photo is the photo of the
\* photo reply the user got; bot.calls lists the Telegram calls made;
\* bot.result holds, of the local result, the fields stage_command reads itself
ResultRead(res) == [success |-> res.success, error |-> res.error,
                    landscape_poster |-> res.landscape_poster,
                    portrait_poster |-> res.portrait_poster]

NoCommand == [pc |-> "idle", args |-> <<>>, result |-> ResultRead(NoRecord),
              calls |-> <<>>, processing |-> "none", photo |-> Missing]

Init ==
    /\ pc = "idle"
    /\ url = NoUrl
    /\ response = "none"
    /\ html = NoHtml
    /\ result = NoRecord
    /\ embedded_data = EmptyDict
    /\ next_data = "unset"
    /\ next_extracted = NoExtract
    /\ ld_data = "unset"
    /\ ld_extracted = NoExtract
    /\ fetches = 0
    /\ ran = {}
    /\ feat = 0
    /\ ret = NoRecord
    /\ outcome = "none"
    /\ session = "unused"
    /\ earlier = NoCall
    /\ other = "idle"
    /\ bot = NoCommand

\* mutant of Begin: embedded_data kept on the engine instead of in a local
Begin_keeping_embedded_data(u) ==
    /\ pc \in {"idle", "done"}
    /\ pc' = "fetch"
    /\ url' = u
    /\ response' = "none"
    /\ html' = NoHtml
    /\ result' = NoRecord
    /\ UNCHANGED embedded_data
    /\ next_data' = "unset"
    /\ next_extracted' = NoExtract
    /\ ld_data' = "unset"
    /\ ld_extracted' = NoExtract
    /\ fetches' = 0
    /\ ran' = {}
    /\ feat' = 0
    /\ ret' = NoRecord
    /\ outcome' = "none"
\* lines 314-341: the locals of a call that starts; none outlives the call before
Begin(u) ==
    /\ pc \in {"idle", "done"}
    /\ pc' = "fetch"
    /\ url' = u
    /\ response' = "none"
    /\ html' = NoHtml
    /\ result' = NoRecord
    /\ embedded_data' = EmptyDict
    /\ next_data' = "unset"
    /\ next_extracted' = NoExtract
    /\ ld_data' = "unset"
    /\ ld_extracted' = NoExtract
    /\ fetches' = 0
    /\ ran' = {}
    /\ feat' = 0
    /\ ret' = NoRecord
    /\ outcome' = "none"

\* a caller invokes engine.get_stage_identity(url)
Call(u) ==
    /\ Begin(u)
    /\ UNCHANGED <<session, earlier, other, bot>>

\* the call that just returned is one to keep for comparison: the first call on
\* the scenario's URL and page, with nothing else on the page, that returned
\* its record
Kept ==
    /\ earlier = NoCall
    /\ pc = "done" /\ ret.error = Missing
    /\ url = KayantarUrl
    /\ html.title_cands = KayantarPage
    /\ html.plain

\* the same invocation, with the input and the record of the call before it
\* remembered when that call is one to keep
CallAgain(u) ==
    /\ Begin(u)
    /\ earlier' = IF Kept THEN [url |-> url, html |-> html, ret |-> ret] ELSE earlier
    /\ UNCHANGED <<session, other, bot>>

\* mutant: a failed fetch is tried a second time
FetchWithRetry(o) ==
    /\ pc = "fetch"
    /\ fetches' = fetches + 1
    /\ response' = o
    /\ session' = "used"
    /\ IF o = "ok"
       THEN /\ result' = InitialResult(url)
            /\ ran' = ran \cup {"extract_stage_id"}
            /\ pc' = "A_type"
            /\ UNCHANGED <<ret, outcome>>
       ELSE IF fetches = 0
            THEN UNCHANGED <<pc, ret, outcome, result, ran>>
            ELSE /\ ret' = Caught(url, o).ret
                 /\ outcome' = Caught(url, o).outcome
                 /\ pc' = "done"
                 /\ UNCHANGED <<result, ran>>
    /\ UNCHANGED <<earlier, other, bot>>
    /\ UNCHANGED <<url, html, embedded_data, next_data, next_extracted, ld_data,
                   ld_extracted, feat>>

\* lines 320-341: session.get, raise_for_status, extract_stage_id, result
Fetch(o) ==
    /\ pc = "fetch"
    /\ fetches' = fetches + 1
    /\ response' = o
    /\ session' = "used"
    /\ IF o = "ok"
       THEN /\ result' = InitialResult(url)
            /\ ran' = ran \cup {"extract_stage_id"}
            /\ pc' = "A_type"
            /\ UNCHANGED <<ret, outcome>>
       ELSE /\ ret' = Caught(url, o).ret
            /\ outcome' = Caught(url, o).outcome
            /\ pc' = "done"
            /\ UNCHANGED <<result, ran>>
    /\ UNCHANGED <<earlier, other, bot>>
    /\ UNCHANGED <<url, html, embedded_data, next_data, next_extracted, ld_data,
                   ld_extracted, feat>>

\* an exception inside extract_embedded_data: its except returns {}; what the
\* abandoned pass had read of the page is dropped with its dictionary
LayerAFault ==
    /\ pc \in LayerASteps
    /\ embedded_data' = EmptyDict
    /\ html' = [NoHtml EXCEPT !.plain = FALSE]
    /\ feat' = 0
    /\ ran' = ran \cup {"extract_embedded_data"}
    /\ pc' = "copy"
    /\ UNCHANGED <<session, earlier, other, bot>>
    /\ UNCHANGED <<url, response, result, next_data, next_extracted, ld_data, ld_extracted,
                   fetches, ret, outcome>>

\* an exception in the body of get_stage_identity outside the inner try
\* blocks; the locals of the abandoned frame are dropped
EngineFault ==
    /\ pc \in EngineSteps
    /\ ret' = Caught(url, "fault").ret
    /\ outcome' = Caught(url, "fault").outcome
    /\ pc' = "done"
    /\ html' = NoHtml
    /\ result' = NoRecord
    /\ embedded_data' = EmptyDict
    /\ next_data' = "unset"
    /\ next_extracted' = NoExtract
    /\ ld_data' = "unset"
    /\ ld_extracted' = NoExtract
    /\ feat' = 0
    /\ UNCHANGED <<session, earlier, other, bot>>
    /\ UNCHANGED <<url, response, fetches, ran>>

\* one step of extract_embedded_data: it sets the keys of upd and moves on
LayerAStepCosting(here, there, upd, cost, read) ==
    /\ pc = here
    /\ html' = read
    /\ feat + cost <= MaxFeatures
    /\ feat' = feat + cost
    /\ embedded_data' = [k \in DOMAIN embedded_data |->
                            IF k \in DOMAIN upd /\ upd[k] # Missing THEN upd[k]
                            ELSE embedded_data[k]]
    /\ ran' = ran \cup {"extract_embedded_data"}
    /\ pc' = there
    /\ UNCHANGED <<session, earlier, other, bot>>
    /\ UNCHANGED <<url, response, result, next_data, next_extracted, ld_data,
                   ld_extracted, fetches, ret, outcome>>

LayerAStep(here, there, upd, nonDefault, read) ==
    LayerAStepCosting(here, there, upd, Cost(nonDefault),
                      [read EXCEPT !.plain = html.plain /\ ~nonDefault])

A_TypeStep ==
    \E f \in TypeFeatures :
        LayerAStep("A_type", "A_title", A_Type(f), f # NoTypeFeatures,
                   [html EXCEPT !.videshi_bahu = /\ f.known["videshi bahu"] = "visible"
                                                 /\ ~f.seriesPath /\ ~f.moviePath])

\* the same step on a page described down to the marker distances, kept in
\* html.type_page
A_TypeStepRecorded ==
    \E p \in {q \in TypePages : \A k \in KnownSeries :
                                  ~q.known[k].present => q.known[k] = NoKnownTitle} :
        LayerAStep("A_type", "A_title", A_Type(FeaturesOf(p)), p # NoTypePage,
                   [html EXCEPT !.type_page = p,
                                !.videshi_bahu = /\ Where(p.known["videshi bahu"]) = "visible"
                                                 /\ ~p.seriesPath /\ ~p.moviePath])

A_TitleStep ==
    \E cands \in [1..Len(TitleSelectors) -> TitleTexts \cup {NoMatch}] :
        LayerAStep("A_title", "A_description", [title |-> A_Title(cands)], FALSE, html)

\* the same step with the candidates kept in html.title_cands, each element
\* that a selector finds counted as one feature of the page
A_TitleStepRecorded ==
    \E cands \in [1..Len(TitleSelectors) -> TitleTexts \cup {NoMatch}] :
        LayerAStepCosting("A_title", "A_description", [title |-> A_Title(cands)],
                          Cardinality({i \in DOMAIN cands : cands[i] # NoMatch}),
                          [html EXCEPT !.title_cands = cands])

A_DescriptionStep ==
    \E cands \in [1..Len(DescSelectors) -> DescTexts \cup {NoMatch}] :
        LayerAStep("A_description", "A_duration", [description |-> A_Description(cands)],
                   \E i \in DOMAIN cands : cands[i] # NoMatch, html)

A_DurationStep ==
    \E nasoor \in BOOLEAN, text \in Texts(DurPhrases) :
        LayerAStep("A_duration", "A_year", [duration |-> A_Duration(nasoor, text)],
                   nasoor \/ text # <<>>, html)

A_YearStep ==
    \E text \in Texts(YearPhrases) :
        LayerAStep("A_year", "A_language", [yearOfRelease |-> A_Year(text)], text # <<>>,
                   [html EXCEPT !.year = [i \in 1..NumYearPatterns |->
                                             YearSearch(i, text, 1)]])

A_LanguageStep ==
    \E caps \in [1..3 -> LangTexts \cup {NoMatch}] :
        LayerAStep("A_language", "A_genre", [dialect |-> A_Language(caps)],
                   \E i \in DOMAIN caps : caps[i] # NoMatch, html)

A_GenreStep ==
    \E caps \in GenreCaps :
        LayerAStep("A_genre", "A_episodes", [genre |-> A_Genre(caps)],
                   \E i \in DOMAIN caps : caps[i] # NoMatch, html)

A_EpisodesStep ==
    \E caps \in EpisodeCaps :
        LayerAStep("A_episodes", "A_posters",
                   [episode_count |-> A_Episodes(embedded_data.type, caps,
                                                 embedded_data.episode_count)],
                   \E i \in DOMAIN caps : caps[i] # -1, html)

\* the last step; extract_embedded_data returns result
A_PostersStep ==
    \E h \in BOOLEAN, v \in BOOLEAN :
        LayerAStep("A_posters", "copy",
                   [horizontalThumbnail |-> A_Poster(h, HorizontalUrl),
                    verticalThumbnail |-> A_Poster(v, VerticalUrl)],
                   h \/ v, html)

\* lines 346-381: find_movie_data, the copy into result, and the branch
Copied(res, embedded) ==
    LET movie_data == find_movie_data(embedded)
        duration_seconds == Get(movie_data, "duration", None)
        copied ==
          [res EXCEPT
             !.title = Get(movie_data, "title", None),
             !.description = Get(movie_data, "description", PStr("")),
             !.release_date = StrOf(Get(movie_data, "yearOfRelease", PStr(""))),
             !.languages = Title(Get(movie_data, "dialect", PStr(""))),
             !.duration = IF Truthy(duration_seconds)
                          THEN IF duration_seconds.t = "int"
                               THEN FormatSeconds(duration_seconds.v)
                               ELSE duration_seconds
                          ELSE res.duration,
             !.landscape_poster = Get(movie_data, "horizontalThumbnail", None),
             !.portrait_poster = Get(movie_data, "verticalThumbnail", None),
             !.type = IF embedded.type # Missing
                      THEN Title(embedded.type) ELSE res.type]
    IN IF NonEmptyDict(embedded) /\ NonEmptyDict(movie_data) THEN copied ELSE res

\* mutant of CopyEmbedded: the fallback branch entered whatever the title
CopyEmbedded_always_fallback ==
    /\ pc = "copy"
    /\ result' = Copied(result, embedded_data)
    /\ ran' = IF NonEmptyDict(embedded_data) THEN ran \cup {"find_movie_data"} ELSE ran
    /\ pc' = "next"
    /\ UNCHANGED <<session, earlier, other, bot>>
    /\ UNCHANGED <<url, response, html, embedded_data, next_data, next_extracted, ld_data,
                   ld_extracted, fetches, feat, ret, outcome>>

\* lines 346-381: the copy of Layer A's fields, then the test of the title
CopyEmbedded ==
    /\ pc = "copy"
    /\ result' = Copied(result, embedded_data)
    /\ ran' = IF NonEmptyDict(embedded_data) THEN ran \cup {"find_movie_data"} ELSE ran
    /\ pc' = IF ~Truthy(result'.title) THEN "next" ELSE "else"
    /\ UNCHANGED <<session, earlier, other, bot>>
    /\ UNCHANGED <<url, response, html, embedded_data, next_data, next_extracted, ld_data,
                   ld_extracted, fetches, feat, ret, outcome>>

\* mutant: the error of json.loads leaves the inner try
ParseErrorRaised == TRUE

\* lines 399-400 and 411-412: `except Exception` of the inner try catches the
\* error of json.loads, so it does not escape
ParseErrorEscapes == FALSE

\* lines 385-400: the __NEXT_DATA__ script; json.loads raises on a malformed
\* block (and on a script without text), which the inner except absorbs.  A
\* malformed block is content of the page and counts as one feature.
NextData ==
    /\ pc = "next"
    /\ \E script \in {"absent", "malformed", "parsed"} :
         IF script = "malformed" /\ feat + 1 > MaxFeatures
         THEN FALSE
         ELSE IF script = "malformed" /\ ParseErrorEscapes
         THEN /\ ret' = Caught(url, "json error").ret
              /\ outcome' = Caught(url, "json error").outcome
              /\ pc' = "done"
              /\ ran' = ran \cup {"next_except"}
              /\ UNCHANGED <<result, next_data, next_extracted, feat, html>>
         ELSE IF script = "parsed"
         THEN \E tr \in NextTrees, landscape \in PosterFeatures, portrait \in PosterFeatures :
                LET posters == detect_posters(landscape, portrait)
                    cost == Fields(tr.content) + Cost(landscape # NoPoster)
                            + Cost(portrait # NoPoster)
                IN /\ feat + cost <= MaxFeatures
                   /\ feat' = feat + cost
                   /\ next_data' = "parsed"
                   /\ next_extracted' = extract_from_next_data(tr)
                   /\ result' = [result EXCEPT !.landscape_poster = posters.landscape,
                                               !.portrait_poster = posters.portrait]
                   /\ ran' = ran \cup {"extract_from_next_data", "detect_posters"}
                   /\ html' = [html EXCEPT !.plain = html.plain /\ cost = 0]
                   /\ pc' = "ld"
                   /\ UNCHANGED <<ret, outcome>>
         ELSE /\ next_data' = "empty"
              /\ next_extracted' = NoExtract
              /\ ran' = IF script = "malformed" THEN ran \cup {"next_except"} ELSE ran
              /\ feat' = feat + Cost(script = "malformed")
              /\ html' = [html EXCEPT !.plain = html.plain /\ script # "malformed"]
              /\ pc' = "ld"
              /\ UNCHANGED <<result, ret, outcome>>
    /\ UNCHANGED <<session, earlier, other, bot>>
    /\ UNCHANGED <<url, response, embedded_data, ld_data, ld_extracted, fetches>>

\* mutant: Layer B fills only the fields that are still falsy
MergeNextIfUnset(res, extracted) ==
    [k \in DOMAIN res |->
        IF k \in DOMAIN extracted /\ extracted[k] # Missing /\ Truthy(extracted[k])
           /\ ~Truthy(res[k])
        THEN extracted[k] ELSE res[k]]

\* lines 415-417: every truthy Layer B value is written into result
MergeNext(res, extracted) ==
    [k \in DOMAIN res |->
        IF k \in DOMAIN extracted /\ extracted[k] # Missing /\ Truthy(extracted[k])
        THEN extracted[k] ELSE res[k]]

\* lines 419-421: a truthy Layer C value fills a field that is still falsy
MergeLd(res, extracted) ==
    [k \in DOMAIN res |->
        IF k \in DOMAIN extracted /\ extracted[k] # Missing /\ Truthy(extracted[k])
           /\ ~Truthy(res[k])
        THEN extracted[k] ELSE res[k]]

\* lines 402-421: the application/ld+json script, then the merge of both layers
LdJson ==
    /\ pc = "ld"
    /\ \E script \in {"absent", "malformed", "parsed"} :
         IF script = "malformed" /\ feat + 1 > MaxFeatures
         THEN FALSE
         ELSE IF script = "malformed" /\ ParseErrorEscapes
         THEN /\ ret' = Caught(url, "json error").ret
              /\ outcome' = Caught(url, "json error").outcome
              /\ pc' = "done"
              /\ ran' = ran \cup {"ld_except"}
              /\ UNCHANGED <<result, ld_data, ld_extracted, feat, html>>
         ELSE /\ IF script = "parsed"
                 THEN \E b \in LdBlocks :
                        /\ feat + Fields(b.obj) <= MaxFeatures
                        /\ feat' = feat + Fields(b.obj)
                        /\ ld_data' = "parsed"
                        /\ ld_extracted' = extract_from_ld_json(b.shape, b.obj)
                        /\ html' = [html EXCEPT !.ld_duration = b.obj.duration,
                                                 !.plain = html.plain /\ Fields(b.obj) = 0]
                        /\ ran' = ran \cup {"extract_from_ld_json", "merge"}
                                   \cup IF b.shape # "scalar" THEN {"convert_duration"} ELSE {}
                 ELSE /\ ld_data' = "empty"
                      /\ ld_extracted' = NoExtract
                      /\ ran' = ran \cup {"merge"}
                                 \cup IF script = "malformed" THEN {"ld_except"} ELSE {}
                      /\ feat' = feat + Cost(script = "malformed")
                      /\ html' = [html EXCEPT !.plain = html.plain /\ script # "malformed"]
              /\ result' = MergeLd(MergeNext(result, next_extracted), ld_extracted')
              /\ pc' = "classify"
              /\ UNCHANGED <<ret, outcome>>
    /\ UNCHANGED <<session, earlier, other, bot>>
    /\ UNCHANGED <<url, response, embedded_data, next_data, next_extracted, fetches>>

\* mutant: the episode count is extracted whatever the type
EpisodeCountAlways(type, caps, old) == extract_episode_count(caps)

\* lines 427-429: the episode count is extracted for a series only
EpisodeCountFor(type, caps, old) ==
    IF type = PStr("Series") THEN extract_episode_count(caps) ELSE old

\* line 437: the duration is a string that ends neither in 'm' nor in 'h'
NeedsCleaning(d) == Truthy(d) /\ IsStr(d) /\ ~EndsWithM(d) /\ ~EndsWithH(d)

\* lines 436-438
CleanDuration(d) == IF NeedsCleaning(d) THEN convert_duration(d) ELSE d

\* mutant: only the title counts
SuccessTitleOnly(res) == Truthy(res.title)

\* lines 441-442
Success(res) == Truthy(res.title) \/ Truthy(res.stage_id)

\* lines 435-444: clean the duration, set success, return result
Finished(res) ==
    [res EXCEPT !.duration = CleanDuration(res.duration),
                !.success = IF Success(res) THEN PBool(TRUE) ELSE res.success]

Return(res) ==
    /\ result' = Finished(res)
    /\ ret' = result'
    /\ outcome' = "returned"
    /\ pc' = "done"
    /\ feat' = 0

\* lines 423-429 and 435-444: the Classifier when no type is set, the episode
\* count of a series, and the return
Classify ==
    /\ pc = "classify"
    /\ \E f \in IF Truthy(result.type) THEN {NoJsonText} ELSE JsonTextFeatures,
          caps \in JsonEpisodeCaps :
         LET cost == TextCost(f) + Cardinality({i \in DOMAIN caps : caps[i] # -1})
             type == IF ~Truthy(result.type) THEN detect_content_type(f) ELSE result.type
             res == [result EXCEPT
                       !.type = type,
                       !.episode_count = EpisodeCountFor(type, caps, result.episode_count)]
         IN /\ (next_data = "empty" /\ ld_data = "empty") => cost = 0
            /\ feat + cost <= MaxFeatures
            /\ Return(res)
            /\ ran' = ran \cup (IF ~Truthy(result.type) THEN {"detect_content_type"} ELSE {})
                          \cup (IF type = PStr("Series") THEN {"extract_episode_count"} ELSE {})
                          \cup (IF NeedsCleaning(res.duration) THEN {"convert_duration"} ELSE {})
            /\ html' = [html EXCEPT !.json_text = f, !.plain = html.plain /\ cost = 0]
    /\ UNCHANGED <<session, earlier, other, bot>>
    /\ UNCHANGED <<url, response, embedded_data, next_data, next_extracted, ld_data,
                   ld_extracted, fetches>>

\* lines 430-444: "type" is always a key of result, so the else branch sets
\* nothing; then the return.  The application/ld+json script of the page is
\* not read on this path; d is the duration its object holds
ElseBranch ==
    /\ pc = "else"
    /\ \E d \in {o.duration : o \in LdObjects} :
         /\ feat + Cost(d # Missing) <= MaxFeatures
         /\ html' = [html EXCEPT !.ld_duration = IF ParsesAsIso(d) THEN d ELSE Missing,
                                  !.plain = html.plain /\ d = Missing]
    /\ Return(result)
    /\ ran' = ran \cup (IF NeedsCleaning(result.duration) THEN {"convert_duration"} ELSE {})
    /\ UNCHANGED <<session, earlier, other, bot>>
    /\ UNCHANGED <<url, response, embedded_data, next_data, next_extracted, ld_data,
                   ld_extracted, fetches>>

Next ==
    \/ \E u \in URLs : Call(u)
    \/ \E o \in FetchOutcomes : Fetch(o)
    \/ LayerAFault
    \/ EngineFault
    \/ A_TypeStep
    \/ A_TitleStep
    \/ A_DescriptionStep
    \/ A_DurationStep
    \/ A_YearStep
    \/ A_LanguageStep
    \/ A_GenreStep
    \/ A_EpisodesStep
    \/ A_PostersStep
    \/ CopyEmbedded
    \/ NextData
    \/ LdJson
    \/ Classify
    \/ ElseBranch

Spec == Init /\ [][Next]_vars

\* every short URL; only the end of a URL matters to extract_stage_id
AllUrls == UNION {[1..n -> UrlChars] : n \in 1..MaxUrlLen}

\* calls on every short URL, each taken as far as the identifier: the fetch,
\* extract_stage_id and the initial result, then a fault that ends the call
NextStageId ==
    \/ \E u \in AllUrls : Call(u)
    \/ \E o \in FetchOutcomes : Fetch(o)
    \/ LayerAFault
    \/ EngineFault

SpecStageId == Init /\ [][NextStageId]_vars

\* Layer A with the title candidates of the page kept in the state, and the
\* return of the calls in which it finds a title (lines 346-378, 430-444)
NextTitle ==
    \/ \E u \in URLs : Call(u)
    \/ \E o \in FetchOutcomes : Fetch(o)
    \/ A_TypeStep
    \/ A_TitleStepRecorded
    \/ A_DescriptionStep
    \/ A_DurationStep
    \/ A_YearStep
    \/ A_LanguageStep
    \/ A_GenreStep
    \/ A_EpisodesStep
    \/ A_PostersStep
    \/ CopyEmbedded
    \/ ElseBranch

SpecTitle == Init /\ [][NextTitle]_vars

\* calls taken as far as the type heuristics of extract_embedded_data
NextType ==
    \/ \E u \in URLs : Call(u)
    \/ \E o \in FetchOutcomes : Fetch(o)
    \/ A_TypeStepRecorded

SpecType == Init /\ [][NextType]_vars

\* the same steps, called again and again on one engine, an earlier call kept
NextRepeat ==
    \/ \E u \in URLs : CallAgain(u)
    \/ \E o \in FetchOutcomes : Fetch(o)
    \/ A_TypeStep
    \/ A_TitleStepRecorded
    \/ A_DescriptionStep
    \/ A_DurationStep
    \/ A_YearStep
    \/ A_LanguageStep
    \/ A_GenreStep
    \/ A_EpisodesStep
    \/ A_PostersStep
    \/ CopyEmbedded
    \/ ElseBranch

SpecRepeat == Init /\ [][NextRepeat]_vars

\* mutant of OtherCall: result kept on the engine instead of in a local, so
\* that the second call's initialisation (lines 327-341) replaces it
OtherCall_sharing_result(u) ==
    /\ other = "idle"
    /\ other' = "in flight"
    /\ session' = "used"
    /\ result' = InitialResult(u)
    /\ UNCHANGED <<pc, url, response, html, embedded_data, next_data, next_extracted,
                   ld_data, ld_extracted, fetches, ran, feat, ret, outcome, earlier, bot>>

\* a second caller invokes get_stage_identity on the same engine while the
\* first call may be anywhere: it sends its request through the shared
\* session (line 320) and works on locals of its own
OtherCall(u) ==
    /\ other = "idle"
    /\ other' = "in flight"
    /\ session' = "used"
    /\ UNCHANGED <<pc, url, response, html, result, embedded_data, next_data,
                   next_extracted, ld_data, ld_extracted, fetches, ran, feat, ret,
                   outcome, earlier, bot>>

\* the second call returns to its own caller (line 444 or 446-462)
OtherReturn ==
    /\ other = "in flight"
    /\ other' = "idle"
    /\ UNCHANGED <<pc, url, response, html, result, embedded_data, next_data,
                   next_extracted, ld_data, ld_extracted, fetches, ran, feat, ret,
                   outcome, session, earlier, bot>>

\* Layer A and the return of the calls in which it finds a title, interleaved
\* in every way with a second call on the same engine
NextInterleaved ==
    \/ \E u \in URLs : Call(u)
    \/ \E o \in FetchOutcomes : Fetch(o)
    \/ A_TypeStep
    \/ A_TitleStepRecorded
    \/ A_DescriptionStep
    \/ A_DurationStep
    \/ A_YearStep
    \/ A_LanguageStep
    \/ A_GenreStep
    \/ A_EpisodesStep
    \/ A_PostersStep
    \/ CopyEmbedded
    \/ ElseBranch
    \/ \E u \in URLs : OtherCall(u)
    \/ OtherReturn

SpecInterleaved == Init /\ [][NextInterleaved]_vars

----------------------------------------------------------------------------
(* The bot: TelegramStageBot.stage_command *)

\* a Telegram call that ended as o, added to the calls made
Called(name, o) == Append(bot.calls, [call |-> name, outcome |-> o])

\* the locals of get_stage_identity are gone once it has returned
Discard ==
    /\ pc' = "idle"
    /\ url' = NoUrl
    /\ response' = "none"
    /\ html' = NoHtml
    /\ result' = NoRecord
    /\ embedded_data' = EmptyDict
    /\ next_data' = "unset"
    /\ next_extracted' = NoExtract
    /\ ld_data' = "unset"
    /\ ld_extracted' = NoExtract
    /\ fetches' = 0
    /\ ran' = {}
    /\ feat' = 0
    /\ ret' = NoRecord
    /\ outcome' = "none"

EngineUnchanged ==
    UNCHANGED <<pc, url, response, html, result, embedded_data, next_data,
                next_extracted, ld_data, ld_extracted, fetches, ran, feat, ret,
                outcome, session, earlier, other>>

\* a user sends /stage with these arguments; the handler starts
StageCommand(args) ==
    /\ bot.pc \in {"idle", "done", "raised"}
    /\ bot' = [NoCommand EXCEPT !.pc = "args", !.args = args]
    /\ EngineUnchanged

\* lines 870-877: no argument
NoArgument(o) ==
    /\ bot.pc = "args"
    /\ Len(bot.args) < 1
    /\ bot' = [bot EXCEPT !.calls = Called("reply_text usage", o),
                          !.pc = IF o = "ok" THEN "done" ELSE "raised"]
    /\ EngineUnchanged

\* lines 879-890: an argument that validate_stage_url rejects
InvalidUrl(o) ==
    /\ bot.pc = "args"
    /\ Len(bot.args) >= 1
    /\ ~validate_stage_url(bot.args[1])
    /\ bot' = [bot EXCEPT !.calls = Called("reply_text invalid", o),
                          !.pc = IF o = "ok" THEN "done" ELSE "raised"]
    /\ EngineUnchanged

\* lines 892-893: the 'Processing' message; the call stands before the try
SendProcessing(o) ==
    /\ bot.pc = "args"
    /\ Len(bot.args) >= 1
    /\ validate_stage_url(bot.args[1])
    /\ bot' = [bot EXCEPT !.calls = Called("reply_text processing", o),
                          !.processing = IF o = "ok" THEN "sent" ELSE "none",
                          !.pc = IF o = "ok" THEN "engine" ELSE "raised"]
    /\ EngineUnchanged

\* line 897: self.engine.get_stage_identity(url) starts
CallEngine ==
    /\ bot.pc = "engine"
    /\ Begin(bot.args[1])
    /\ bot' = [bot EXCEPT !.pc = "await"]
    /\ UNCHANGED <<session, earlier, other>>

\* mutant of poster_url: the portrait poster preferred
poster_url_portrait_first(res) ==
    IF Truthy(res.portrait_poster) THEN res.portrait_poster ELSE res.landscape_poster
\* line 913: result.get("landscape_poster") or result.get("portrait_poster")
poster_url(res) ==
    IF Truthy(Get(res, "landscape_poster", None))
    THEN Get(res, "landscape_poster", None)
    ELSE Get(res, "portrait_poster", None)

\* lines 897-915: the record comes back; the branch on success and on the poster
EngineReturned ==
    /\ bot.pc = "await"
    /\ pc = "done"
    /\ outcome = "returned"
    /\ bot' = [bot EXCEPT
                 !.result = ResultRead(ret),
                 !.pc = IF ~Truthy(Get(ret, "success", None)) THEN "failed"
                        ELSE IF Truthy(poster_url(ret)) THEN "photo"
                        ELSE "text"]
    /\ Discard
    /\ UNCHANGED <<session, earlier, other>>

\* lines 899-907: the failure text, edited into the 'Processing' message
EditFailed(o) ==
    /\ bot.pc = "failed"
    /\ bot' = [bot EXCEPT !.calls = Called("edit_text failed", o),
                          !.processing = IF o = "ok" THEN "failed" ELSE @,
                          !.pc = IF o = "ok" THEN "done" ELSE "except"]
    /\ EngineUnchanged

\* lines 916-921: reply_photo
ReplyPhoto(o) ==
    /\ bot.pc = "photo"
    /\ bot' = [bot EXCEPT !.calls = Called("reply_photo", o),
                          !.photo = IF o = "ok" THEN poster_url(bot.result) ELSE @,
                          !.pc = IF o = "ok" THEN "delete" ELSE "photo_except"]
    /\ EngineUnchanged

\* line 922: processing_msg.delete()
Delete(o) ==
    /\ bot.pc = "delete"
    /\ bot' = [bot EXCEPT !.calls = Called("delete", o),
                          !.processing = IF o = "ok" THEN "deleted" ELSE @,
                          !.pc = IF o = "ok" THEN "done" ELSE "photo_except"]
    /\ EngineUnchanged

\* lines 923-926: the except of the photo reply and of the deletion
PhotoFallback(o) ==
    /\ bot.pc = "photo_except"
    /\ bot' = [bot EXCEPT !.calls = Called("edit_text message", o),
                          !.processing = IF o = "ok" THEN "text" ELSE @,
                          !.pc = IF o = "ok" THEN "done" ELSE "except"]
    /\ EngineUnchanged

\* lines 927-929: no poster
EditText(o) ==
    /\ bot.pc = "text"
    /\ bot' = [bot EXCEPT !.calls = Called("edit_text message", o),
                          !.processing = IF o = "ok" THEN "text" ELSE @,
                          !.pc = IF o = "ok" THEN "done" ELSE "except"]
    /\ EngineUnchanged

\* lines 931-933: the outer except; what its edit_text raises leaves the handler
OuterExcept(o) ==
    /\ bot.pc = "except"
    /\ bot' = [bot EXCEPT !.calls = Called("edit_text error", o),
                          !.processing = IF o = "ok" THEN "error" ELSE @,
                          !.pc = IF o = "ok" THEN "done" ELSE "raised"]
    /\ EngineUnchanged

\* the /stage commands of one chat, one after the other, each with every
\* outcome of its Telegram calls, and the engine's calls with every page
NextBot ==
    \/ \E args \in {<<>>} \cup {<<u>> : u \in BotUrls} : StageCommand(args)
    \/ \E o \in TelegramOutcomes : NoArgument(o)
    \/ \E o \in TelegramOutcomes : InvalidUrl(o)
    \/ \E o \in TelegramOutcomes : SendProcessing(o)
    \/ CallEngine
    \/ \E o \in FetchOutcomes : Fetch(o)
    \/ LayerAFault
    \/ EngineFault
    \/ A_TypeStep
    \/ A_TitleStep
    \/ A_DescriptionStep
    \/ A_DurationStep
    \/ A_YearStep
    \/ A_LanguageStep
    \/ A_GenreStep
    \/ A_EpisodesStep
    \/ A_PostersStep
    \/ CopyEmbedded
    \/ NextData
    \/ LdJson
    \/ Classify
    \/ ElseBranch
    \/ EngineReturned
    \/ \E o \in TelegramOutcomes : EditFailed(o)
    \/ \E o \in TelegramOutcomes : ReplyPhoto(o)
    \/ \E o \in TelegramOutcomes : Delete(o)
    \/ \E o \in TelegramOutcomes : PhotoFallback(o)
    \/ \E o \in TelegramOutcomes : EditText(o)
    \/ \E o \in TelegramOutcomes : OuterExcept(o)

SpecBot == Init /\ [][NextBot]_vars

----------------------------------------------------------------------------
(* Properties *)

ContentFields == {"stage_id", "type", "title", "description", "release_date",
                  "duration", "genre", "languages", "episode_count",
                  "landscape_poster", "portrait_poster"}

Returned == pc = "done"
ReturnedWithoutError == pc = "done" /\ ret.error = Missing

\* extract_embedded_data ran to its end, without an exception
LayerACompleted == embedded_data.type # Missing

\* C1: get_stage_identity never raises to its caller; whatever the fetch
\* outcome and whatever fault occurs inside, the call ends by returning a
\* record that has the keys url and success.
C1_NeverRaises ==
    /\ outcome # "raised"
    /\ Returned => /\ outcome = "returned"
                   /\ ret.url = PUrl(url)
                   /\ ret.success # Missing

\* a call in which a fault occurred after the fetch has returned its record
C1_Witness == Returned /\ ret.error = PStr("fault")

\* C2: a returned record has error set or a content field populated, never
\* both and never neither; after a failed fetch it has success false, error
\* set, the input URL and no content field.
C2_ErrorXorContent ==
    Returned =>
      /\ ret.error # Missing => \A k \in ContentFields : ret[k] = None
      /\ ret.error = Missing => \E k \in ContentFields : Truthy(ret[k])
      /\ response # "ok" => /\ ret.success = PBool(FALSE)
                            /\ ret.error # Missing
                            /\ ret.url = PUrl(url)
                            /\ \A k \in ContentFields : ret[k] = None

\* the fetch of a URL that carries an identifier timed out
C2_Witness == Returned /\ response = "timeout" /\ extract_stage_id(url) # None

\* C3: once the fetch has failed the call is over: one fetch attempt was
\* made, no component ran, and the failure record is returned.
C3_FailedFetchShortCircuits ==
    response \notin {"none", "ok"} =>
      /\ pc = "done"
      /\ fetches = 1
      /\ ran = {}
      /\ ret.error # Missing

\* a call whose fetch ended in a connection error
C3_Witness == Returned /\ response = "connection error"

\* C4: in a returned record success is true exactly when the title or the
\* identifier is non-empty.
C4_SuccessIffTitleOrId ==
    Returned => (ret.success = PBool(TRUE) <=> (Truthy(ret.title) \/ Truthy(ret.stage_id)))

\* a record without a title that succeeds on its identifier alone
C4_Witness ==
    /\ ReturnedWithoutError /\ LayerACompleted
    /\ ret.success = PBool(TRUE) /\ ~Truthy(ret.title)

\* the value Layer A holds for a field of the record, as lines 352-370 copy it
LayerAValue ==
    [description |-> embedded_data.description,
     release_date |-> StrOf(embedded_data.yearOfRelease),
     duration |-> embedded_data.duration,
     languages |-> Title(embedded_data.dialect),
     genre |-> embedded_data.genre]

\* Layers A and B both have a non-empty value for field k, and the two differ
BothDiffer(k) ==
    /\ Truthy(LayerAValue[k])
    /\ Truthy(next_extracted[k])
    /\ LayerAValue[k] # next_extracted[k]

\* C5 as claimed: where Layer A and Layer B both have a non-empty value for
\* a field and the values differ, the returned record holds Layer A's value.
C5_LayerAWins ==
    ReturnedWithoutError =>
      \A k \in DOMAIN LayerAValue : BothDiffer(k) => ret[k] = LayerAValue[k]

\* C5 amended: where Layer A and Layer B both have a non-empty value for a
\* field and the values differ, a record returned without error holds Layer
\* B's value.
C5_LayerBWins ==
    ReturnedWithoutError =>
      \A k \in DOMAIN LayerAValue : BothDiffer(k) => ret[k] = next_extracted[k]

\* both layers found a description, and not the same one
C5_Witness == ReturnedWithoutError /\ BothDiffer("description")

\* C6 as claimed: episode_count is set if and only if type is Series
\* (stated for the calls in which Layer A did not fail).
C6_EpisodeCountIffSeries ==
    (Returned /\ LayerACompleted) =>
      (ret.episode_count # None <=> ret.type = PStr("Series"))

\* C6 amended: episode_count is set only if type is Series and
\* extract_episode_count ran in the fallback branch; a Series record need
\* not have an episode count.
C6_EpisodeCountOnlyFromExtractor ==
    Returned =>
      (ret.episode_count # None =>
         ret.type = PStr("Series") /\ "extract_episode_count" \in ran)

\* a Series record with an episode count
C6_Witness ==
    /\ ReturnedWithoutError /\ LayerACompleted
    /\ ret.type = PStr("Series") /\ ret.episode_count # None

\* C7: no returned record has episode_count set while its type is not
\* Series, whichever branch produced it.
C7_NoEpisodeCountUnlessSeries ==
    Returned => (ret.type # PStr("Series") => ret.episode_count = None)

\* the fallback branch returned a Movie
C7_Witness ==
    /\ ReturnedWithoutError /\ LayerACompleted
    /\ ret.type = PStr("Movie") /\ "merge" \in ran

\* C8 as claimed: a duration that is set reads "<H>h <M>m", "<M>m" or
\* "<M>m <S>s" (stated for the calls in which Layer A did not fail).
C8_DurationGrammar ==
    (Returned /\ LayerACompleted) =>
      \/ ret.duration = None
      \/ ret.duration.t = "dstr" /\ ret.duration.v.fmt \in {"hm", "m", "ms"}

\* C9 as claimed: no returned duration is "0m" or "0h", and none is taken
\* from a "348h" in the text ("48h 5m" can only come from "348h 5m" here);
\* stated for the calls in which Layer A did not fail.
C9_NoDegenerateDuration ==
    (Returned /\ LayerACompleted) =>
      ret.duration \notin {PDur("m", 0, 0, 0), PDur("h", 0, 0, 0), PDur("hm", 48, 5, 0)}

\* the range [1900, 2030]
InYearRange(n) == 1900 <= n /\ n <= 2030

\* C10: a year that Layer A's patterns set lies in [1900, 2030]; when the
\* first pattern that matches is out of range and the next one is in range,
\* the year is the next one's; the title branch returns that year.
C10_YearInRange ==
    LET year == embedded_data.yearOfRelease
    IN /\ year # Missing => InYearRange(year.v)
       /\ NonEmptyDict(embedded_data) =>
            \A i \in 1..(NumYearPatterns - 1) :
               ( /\ html.year[i] # -1
                 /\ \A j \in 1..i : html.year[j] = -1 \/ ~InYearRange(html.year[j])
                 /\ InYearRange(html.year[i + 1]) )
               => year = PInt(html.year[i + 1])
       /\ (ReturnedWithoutError /\ "merge" \notin ran) =>
            ret.release_date = (IF year = Missing THEN PStr("") ELSE PStr(ToString(year.v)))

\* "released in 1899" was rejected and the "<year> movie" pattern supplied 2005
C10_Witness == html.year[1] = 1899 /\ embedded_data.yearOfRelease = PInt(2005)

\* C12 as claimed: when the linked-data object of the page has a valid
\* ISO-8601 duration and neither Layer A nor Layer B supplies a duration, the
\* returned duration is the normalized linked-data duration, whatever else
\* Layer A extracted (stated for the calls in which Layer A did not fail).
C12_LdDurationReturned ==
    ( /\ ReturnedWithoutError /\ LayerACompleted
      /\ ParsesAsIso(html.ld_duration)
      /\ ~Truthy(embedded_data.duration)
      /\ ~Truthy(next_extracted.duration) )
    => ret.duration = convert_duration(html.ld_duration)

\* C13 as claimed: a page that shows "Videshi Bahu" outside any
\* search-suggestion context, with no explicit type elsewhere, returns type
\* Series and episode count 12 (stated for the calls in which Layer A did not
\* fail).
C13_VideshiBahuTwelve ==
    (ReturnedWithoutError /\ LayerACompleted /\ html.videshi_bahu)
    => ret.type = PStr("Series") /\ ret.episode_count = PInt(12)

\* the absolute URLs among the strings of the model
AbsoluteUrls == {HorizontalUrl, VerticalUrl, ThumbnailUrl, PortraitThumbnailUrl}

\* C14 as claimed: a poster field that is set in a returned record is an
\* absolute URL, never a fragment such as a file extension; when
\* detect_posters ran on a tree with a landscape and a portrait match, both
\* fields are set (stated for the calls in which Layer A did not fail).
C14_PostersAreAbsoluteUrls ==
    (ReturnedWithoutError /\ LayerACompleted) =>
      \A k \in {"landscape_poster", "portrait_poster"} :
         ret[k] = None \/ (ret[k].t = "str" /\ ret[k].v \in AbsoluteUrls)

\* the length of the run of digits at the end of u
TrailingDigits(u) ==
    CHOOSE k \in 0..Len(u) :
        /\ \A j \in (Len(u) - k + 1)..Len(u) : u[j] \in Digits
        /\ (k = Len(u) \/ u[Len(u) - k] \notin Digits)

\* the run of digits at the end of u
DigitsAtEnd(u) == PChars(SubSeq(u, Len(u) - TrailingDigits(u) + 1, Len(u)))

\* C15 as claimed: the identifier is the run of digits at the end of the URL
\* whether or not a hyphen precedes it, and absent when the URL does not end
\* in a digit.
C15_StageIdAnyTrailingDigits ==
    result # NoRecord =>
      result.stage_id = (IF TrailingDigits(url) > 0 THEN DigitsAtEnd(url) ELSE None)

\* C15 amended: the identifier is the run of digits at the end of the URL
\* when a hyphen stands immediately before that run, and absent otherwise:
\* for a URL that ends in digits with no hyphen before them and for a URL
\* that does not end in a digit.
C15_StageIdAfterHyphen ==
    result # NoRecord =>
      LET k == TrailingDigits(url)
      IN result.stage_id = (IF k > 0 /\ k < Len(url) /\ url[Len(url) - k] = "-"
                            THEN DigitsAtEnd(url) ELSE None)

\* a URL that ends in digits after a letter has no identifier
C15_Witness ==
    /\ result # NoRecord
    /\ TrailingDigits(url) > 0
    /\ TrailingDigits(url) < Len(url)
    /\ url[Len(url) - TrailingDigits(url)] = "m"
    /\ result.stage_id = None

\* C16 as claimed: no field of a returned record is the empty string; a
\* field for which no source supplied a value is None (stated for the calls
\* in which Layer A did not fail).
C16_AbsentNotEmptyString ==
    (ReturnedWithoutError /\ LayerACompleted) =>
      \A k \in ContentFields : ret[k] # PStr("")

\* json.loads raised on the __NEXT_DATA__ script / on the ld+json script
NextFailed == "next_except" \in ran
LdFailed == "ld_except" \in ran

\* C18: a block that fails to parse is not fatal.  The call ends with no
\* error other than that of a later fault; after a failed __NEXT_DATA__
\* block Layer B contributes nothing and the values of the ld+json block are
\* still merged into the fields Layer A left empty; after a failed ld+json
\* block the values of the __NEXT_DATA__ block are in the record.
C18_MalformedBlockNotFatal ==
    /\ (NextFailed \/ LdFailed) => ret.error \in {Missing, PStr("fault")}
    /\ (NextFailed /\ pc \in {"ld", "classify"}) => next_extracted = NoExtract
    /\ (NextFailed /\ ReturnedWithoutError) =>
          /\ "merge" \in ran
          /\ next_extracted = NoExtract
          /\ Truthy(ld_extracted.title) => ret.title = ld_extracted.title
          /\ \A k \in DOMAIN LayerAValue :
                (Truthy(ld_extracted[k]) /\ ~Truthy(LayerAValue[k]))
                => ret[k] = ld_extracted[k]
    /\ (LdFailed /\ ReturnedWithoutError) =>
          /\ ld_extracted = NoExtract
          /\ \A k \in DOMAIN next_extracted :
                Truthy(next_extracted[k]) => ret[k] = next_extracted[k]

\* the __NEXT_DATA__ block failed to parse and the title of the ld+json
\* block is in the record
C18_Witness ==
    /\ ReturnedWithoutError /\ LayerACompleted
    /\ NextFailed /\ ld_data = "parsed"
    /\ Truthy(ret.title) /\ ret.title = ld_extracted.title

\* the Classifier ran in this call and the call returned its record
ClassifierDecided ==
    /\ ReturnedWithoutError
    /\ "detect_content_type" \in ran

\* C19: detect_content_type returns Series when the JSON text holds a series
\* path marker, even next to '/movie/'; otherwise Movie when it holds '/movie/';
\* otherwise Series only when at least 3 distinct series indicators occur in
\* it; otherwise Movie
C19_ClassifierPriority ==
    ClassifierDecided =>
        LET f == html.json_text
        IN /\ f.seriesPath => ret.type = PStr("Series")
           /\ (~f.seriesPath /\ f.moviePath) => ret.type = PStr("Movie")
           /\ (~f.seriesPath /\ ~f.moviePath /\ Cardinality(Occurring(f.words)) >= 3)
                 => ret.type = PStr("Series")
           /\ (~f.seriesPath /\ ~f.moviePath /\ Cardinality(Occurring(f.words)) < 3)
                 => ret.type = PStr("Movie")

\* a series path marker and '/movie/' in the same text, classified Series
C19_Witness ==
    /\ ClassifierDecided
    /\ html.json_text.seriesPath
    /\ html.json_text.moviePath
    /\ ret.type = PStr("Series")

\* a candidate the title loop accepts: an element was found, its text (or
\* content attribute) is not empty and is not the bare site name
Accepted(c) == c # NoMatch /\ c # "" /\ c # "STAGE"

\* C20: Layer A's title is the first candidate, in the order h1, title, the two
\* known title selectors, og:title, that is non-empty and not 'STAGE' (no title
\* when there is none); and a call on the scenario's URL and page, on which
\* Layer A's heuristics decide "movie", returns identifier '14145', type 'Movie'
\* and title 'Kayantar'
C20_FirstAcceptedTitle ==
    LET cands == html.title_cands
        accepted == {i \in DOMAIN cands : Accepted(cands[i])}
    IN /\ accepted = {} => embedded_data.title = Missing
       /\ \A i \in accepted :
             (\A j \in accepted : i <= j) => embedded_data.title = PStr(cands[i])
       /\ ( /\ ReturnedWithoutError
            /\ url = KayantarUrl
            /\ cands = KayantarPage
            /\ embedded_data.type = PStr("movie") )
          => /\ ret.stage_id = PChars(<<"1", "4", "1", "4", "5">>)
             /\ ret.type = PStr("Movie")
             /\ ret.title = PStr("Kayantar")

\* the scenario returned its record
C20_Witness ==
    /\ ReturnedWithoutError
    /\ url = KayantarUrl
    /\ html.title_cands = KayantarPage
    /\ embedded_data.type = PStr("movie")
    /\ ret.title = PStr("Kayantar")

\* a call that has just started holds nothing of the calls before it
Fresh ==
    /\ response = "none" /\ html = NoHtml /\ result = NoRecord
    /\ embedded_data = EmptyDict
    /\ next_data = "unset" /\ next_extracted = NoExtract
    /\ ld_data = "unset" /\ ld_extracted = NoExtract
    /\ fetches = 0 /\ ran = {} /\ feat = 0
    /\ ret = NoRecord /\ outcome = "none"

\* this call had the URL and, as far as a call reads it, the page of the kept one
SameInput ==
    /\ earlier # NoCall
    /\ url = earlier.url
    /\ html = earlier.html

PlainLayerA(cands) ==
    [EmptyDict EXCEPT !.type = A_Type(NoTypeFeatures).type, !.title = A_Title(cands)]

\* the record of a call, run by itself, on URL u and such a page with a title:
\* lines 327-341, Layer A, lines 346-378, and the return of lines 435-444
RunAlone(u, cands) == Finished(Copied(InitialResult(u), PlainLayerA(cands)))

\* the call read a page with a title and nothing else, and returned
ReturnedOnPlainPage ==
    /\ ReturnedWithoutError
    /\ html.plain
    /\ Truthy(A_Title(html.title_cands))

C26_LayerAPosterKept ==
    ReturnedWithoutError =>
        /\ Truthy(embedded_data.horizontalThumbnail) => Truthy(ret.landscape_poster)
        /\ Truthy(embedded_data.verticalThumbnail) => Truthy(ret.portrait_poster)

\* C24: every record returned without error has type 'Movie' or 'Series',
\* in the branch where Layer A found a title and in the fallback branch
C24_TypeMovieOrSeries ==
    ReturnedWithoutError => ret.type \in {PStr("Movie"), PStr("Series")}

\* Layer A failed, the fallback branch ran and the Classifier set the type
C24_Witness ==
    /\ ReturnedWithoutError
    /\ ~LayerACompleted
    /\ "merge" \in ran
    /\ ret.type = PStr("Movie")

\* the components of the fallback branch (lines 380-428)
FallbackComponents == {"extract_from_next_data", "detect_posters", "extract_from_ld_json",
                       "detect_content_type", "extract_episode_count"}

KnownSeriesShown(p) ==
    \E k \in KnownSeries : p.known[k].present /\ p.known[k].marker_end > ContextWindow

----------------------------------------------------------------------------
(* The bot *)

\* the handler is past the tests of its argument
PastValidation == bot.pc \notin {"idle", "args"}

\* the handler answered that the URL is invalid, or tried to
Rejected == Len(bot.calls) >= 1 /\ bot.calls[1].call = "reply_text invalid"

\* C23: the engine is invoked only for URLs on the stage.in domain:
\* validate_stage_url rejects every URL whose host is neither stage.in nor a
\* subdomain of it, and get_stage_identity is never called for a URL that
\* validate_stage_url rejects or when no argument was given
C23_EngineOnlyOnStageDomain ==
    /\ (PastValidation /\ Len(bot.args) >= 1 /\ ~OnStageDomain(bot.args[1])) => Rejected
    /\ pc # "idle" => /\ Len(bot.args) >= 1
                      /\ validate_stage_url(bot.args[1])
                      /\ url = bot.args[1]

\* the handler has ended: it returned, or an exception left it
HandlerEnded == bot.pc \in {"done", "raised"}

\* the record the handler got is a successful one
GotSuccess == Truthy(bot.result.success)

PosterPresent == Truthy(bot.result.landscape_poster) \/ Truthy(bot.result.portrait_poster)

\* the landscape poster when there is one, else the portrait poster
PreferredPoster == IF Truthy(bot.result.landscape_poster)
                   THEN bot.result.landscape_poster
                   ELSE bot.result.portrait_poster

\* the handler made this Telegram call, with this outcome
Made(name, o) == \E i \in 1..Len(bot.calls) : bot.calls[i] = [call |-> name, outcome |-> o]
Tried(name) == \E o \in TelegramOutcomes : Made(name, o)

\* the user got the photo reply; the user got the text result and no photo
PhotoReply == bot.photo # Missing
TextOnlyReply == bot.photo = Missing /\ bot.processing = "text"

\* C21 as stated: for a successful record the reply follows from the poster
\* fields alone: a photo reply with the preferred poster when a poster is
\* present, the text-only reply exactly when none is
C21_ReplyByPosterAlone ==
    (HandlerEnded /\ GotSuccess) =>
        /\ PosterPresent => (PhotoReply /\ bot.photo = PreferredPoster)
        /\ TextOnlyReply <=> ~PosterPresent

\* C21, amended: for a successful record the handler tries the photo reply
\* exactly when a poster is present, a photo reply that arrives carries the
\* landscape poster if there is one and else the portrait poster, and the
\* handler tries to edit the text result into the 'Processing' message exactly
\* when no poster is present or the photo reply or the deletion raised
C21_PhotoTriedByPosterAlone ==
    (HandlerEnded /\ GotSuccess) =>
        /\ Tried("reply_photo") <=> PosterPresent
        /\ PhotoReply => bot.photo = PreferredPoster
        /\ TextOnlyReply => (~PosterPresent \/ Made("reply_photo", "raises"))
        /\ Tried("edit_text message") <=>
              \/ ~PosterPresent
              \/ Made("reply_photo", "raises")
              \/ Made("delete", "raises")

\* a successful record with two different posters, answered with the photo
\* reply
C21_Witness ==
    /\ HandlerEnded /\ GotSuccess
    /\ Truthy(bot.result.landscape_poster) /\ Truthy(bot.result.portrait_poster)
    /\ bot.result.landscape_poster # bot.result.portrait_poster
    /\ bot.photo = bot.result.landscape_poster
    /\ bot.processing = "deleted"

\* the handler returned; no exception left it
HandlerReturned == bot.pc = "done"

\* C27: a /stage command that passed validation ends with exactly one final
\* result: the photo reply with the 'Processing' message deleted, or no photo
\* and the 'Processing' message edited to the text result, the failure text or
\* the error text; never a photo reply together with an edited message, never
\* the 'Processing' message left as it was. Stated for the commands whose
\* handler returned
C27_ExactlyOneFinalResult ==
    (HandlerReturned /\ Made("reply_text processing", "ok")) =>
        \/ PhotoReply /\ bot.processing = "deleted"
        \/ ~PhotoReply /\ bot.processing \in {"text", "failed", "error"}

====
